---- MODULE Spec2Model ----
(***************************************************************************)
(* Event-sourced Linked-Data Resource aggregate of vine-pod                *)
(* (internal/domain/entity/resource.go), its domain events                 *)
(* (internal/domain/event/resource_events.go) and the RDF validators it    *)
(* calls (internal/domain/service/rdf_validation_service_impl.go).         *)
(*                                                                         *)
(* A text is modelled by what the parsers make of it, not by its           *)
(* characters: the language it is written in, whether that language's      *)
(* parser accepts it, the top-level "@id" of a JSON-LD object and the      *)
(* triples of a triple format.  A timestamp is a number of clock ticks;    *)
(* Unix() truncates it to whole seconds.  md5 is modelled as injective:    *)
(* the hash of a string is the string's components.                        *)
(***************************************************************************)
EXTENDS Integers, Sequences, FiniteSets, TLC

VARIABLES
    r,          \* the BasicResource under construction
    now,        \* the wall clock read by time.Now(), in ticks
    panicked,   \* TRUE once a call has panicked (the goroutine is gone)
    call,       \* history: the last call made, with its arguments
    trace,      \* history: the names of the calls made so far, in order
    applied,    \* history: number of events applied by live operations
    result,     \* history: what the last GetETag() returned, and when
    history,    \* replay: the stored event stream handed to LoadFromHistory
    replica,    \* replay: the two Resources rebuilt from the stream
    before,     \* replay: each replica as it was when LoadFromHistory was called
    checked,    \* validation: the last direct validator call and its outcome
    converted   \* conversion: the last ConvertFormat call and what it returned

vars == <<r, now, panicked, call, trace, applied, result,
          history, replica, before, checked, converted>>

-----------------------------------------------------------------------------
(* Bounds *)

MaxOps == 3             \* calls made on one Resource
MaxTime == 2            \* last clock tick
TicksPerSecond == 2     \* clock ticks in one second of Unix()
MaxHistory == 2         \* events in a stored stream
MaxTriples == 2         \* triples in a text given to a validator

-----------------------------------------------------------------------------
(* Texts *)

Triple(s, st, p, o, lit) ==
    [Subject |-> s, SubjType |-> st, Predicate |-> p, Object |-> o, IsLiteral |-> lit]

Text(lang, wf, idkind, idval, triples, n) ==
    [lang |-> lang, wf |-> wf, idkind |-> idkind, idval |-> idval,
     triples |-> triples, n |-> n]

\* the Go string ""
EmptyText == Text("none", FALSE, "absent", "", <<>>, 0)
\* a non-empty text no parser accepts
Garbage == Text("none", FALSE, "absent", "", <<>>, 1)

JSONLDText(idkind, idval, n) == Text("jsonld", TRUE, idkind, idval, <<>>, n)

JSONLDTexts ==
    { JSONLDText("string", "a", 1),     \* {"@id": "a", ...}
      JSONLDText("string", "b", 1),     \* {"@id": "b", ...}
      JSONLDText("string", "", 1),      \* {"@id": ""}
      JSONLDText("absent", "", 1) }     \* {"@type": ...} without "@id"

TurtleTexts ==
    { Text("turtle", TRUE, "absent", "", <<Triple("a", "iri", "p", "o", FALSE)>>, 1),
      Text("turtle", TRUE, "absent", "", <<Triple("b", "iri", "p", "o", FALSE),
                                           Triple("a", "iri", "p", "x", TRUE)>>, 1),
      Text("turtle", TRUE, "absent", "", <<>>, 1) }     \* prefixes only

RDFXMLTexts ==
    { Text("rdfxml", TRUE, "absent", "", <<Triple("b", "iri", "p", "o", FALSE)>>, 1),
      Text("rdfxml", TRUE, "absent", "", <<Triple("_:n", "blank", "p", "o", FALSE)>>, 1),
      Text("rdfxml", TRUE, "absent", "", <<>>, 1) }     \* <rdf:RDF/>

\* texts given to the validators called on their own
Subjects == {<<"a", "iri">>, <<"b", "iri">>, <<"_:n", "blank">>}
TripleLangs == {"turtle", "rdfxml", "n3", "ntriples"}

TripleSeqs ==
    UNION { [1..k -> { Triple(st[1], st[2], "p", "o", FALSE) : st \in Subjects }]
            : k \in 0..MaxTriples }

ValidationTexts ==
    {EmptyText, Garbage}
    \cup JSONLDTexts
    \cup { JSONLDText("nonstring", "", 1),                     \* {"@id": 5}
           Text("jsonld", FALSE, "absent", "", <<>>, 1) }      \* {"@id": "a"
    \cup { Text(lang, TRUE, "absent", "", ts, 1) : lang \in TripleLangs, ts \in TripleSeqs }
    \cup { Text(lang, FALSE, "absent", "", <<>>, 1) : lang \in TripleLangs }

URIs == {"", "u1", "u2"}
ContentTypes == {"application/ld+json", "text/turtle"}

-----------------------------------------------------------------------------
(* RDF validation service: each validator yields the set of outcomes the   *)
(* call can have, [id, err], err = "none" for a nil error.                 *)

Outcome(id, err) == [id |-> id, err |-> err]

Range(seq) == { seq[i] : i \in 1..Len(seq) }

\* json-gold's Expand is not part of the repository: a top-level "@id" that
\* is no string either fails the expansion or falls through to the last return
ValidateJSONLD(data) ==
    IF data.lang # "jsonld" \/ ~data.wf
    THEN {Outcome("", "Invalid JSON syntax")}
    ELSE IF data.idkind = "string"
         THEN {Outcome(data.idval, "none")}
         ELSE IF data.idkind = "nonstring"
              THEN {Outcome("", "JSON-LD expansion failed"),
                    Outcome("", "No @id field found in JSON-LD")}
              ELSE {Outcome("", "No @id field found in JSON-LD")}

\* what the loop over graph.IterTriples() returns: the triples come in no
\* fixed order, the first one with a non-empty subject decides
FirstSubject(triples, noSubject) ==
    LET found == { i \in 1..Len(triples) : triples[i].Subject # "" }
    IN  IF found = {}
        THEN {Outcome("", noSubject)}
        ELSE { Outcome(triples[i].Subject, "none") : i \in found }

\* an N-Triples document is a Turtle document; the empty string is a document
\* without statements, which the parser may accept or refuse
ValidateTurtle(data) ==
    IF data = EmptyText
    THEN {Outcome("", "Turtle parsing failed"),
          Outcome("", "No subject URI found in Turtle data")}
    ELSE IF data.lang \notin {"turtle", "ntriples"} \/ ~data.wf
         THEN {Outcome("", "Turtle parsing failed")}
         ELSE FirstSubject(data.triples, "No subject URI found in Turtle data")

\* what follows the first decoder.Decode(): on io.EOF the zero Triple is
\* inspected, and its Subj is a nil interface
FirstDecoded(triples, noSubject) ==
    IF triples = <<>>
    THEN {Outcome("", "panic")}
    ELSE IF triples[1].SubjType = "iri"
         THEN {Outcome(triples[1].Subject, "none")}
         ELSE {Outcome("", noSubject)}

\* the XML decoder ends the empty string with io.EOF or with a syntax error
ValidateRDFXML(data) ==
    IF data = EmptyText
    THEN {Outcome("", "RDF/XML parsing failed")}
         \cup FirstDecoded(<<>>, "No rdf:about URI found in RDF/XML data")
    ELSE IF data.lang # "rdfxml" \/ ~data.wf
         THEN {Outcome("", "RDF/XML parsing failed")}
         ELSE FirstDecoded(data.triples, "No rdf:about URI found in RDF/XML data")

\* graph.Parse is given "text/n3": rdf2go either has no parser for that type
\* (every text fails) or reads N3 with its Turtle parser
ValidateN3(data) ==
    {Outcome("", "N3 parsing failed")}
    \cup IF data = EmptyText
         THEN {Outcome("", "No subject URI found in N3 data")}
         ELSE IF data.lang \notin {"n3", "turtle", "ntriples"} \/ ~data.wf
              THEN {}
              ELSE FirstSubject(data.triples, "No subject URI found in N3 data")

ValidateNTriples(data) ==
    IF data = EmptyText
    THEN FirstDecoded(<<>>, "No subject URI found in N-Triples data")
    ELSE IF data.lang # "ntriples" \/ ~data.wf
         THEN {Outcome("", "N-Triples parsing failed")}
         ELSE FirstDecoded(data.triples, "No subject URI found in N-Triples data")

-----------------------------------------------------------------------------
(* Format converter.  A returned string is modelled by what it contains;   *)
(* EmptyString is the Go string "".                                        *)

FormatJSONLD == "application/ld+json"
FormatTurtle == "text/turtle"
FormatRDFXML == "application/rdf+xml"
FormatN3 == "text/n3"
FormatNTriples == "application/n-triples"
FormatRDFJSON == "application/rdf+json"

SupportedFormats ==
    <<FormatJSONLD, FormatTurtle, FormatRDFXML, FormatN3, FormatNTriples>>

rdfTriple(s, p, o, lit) == [Subject |-> s, Predicate |-> p, Object |-> o, IsLiteral |-> lit]

Parsed(triples, err) == [triples |-> triples, err |-> err]

\* a parse that carries the rest of the object into the triple
parseJSONLDToTriples_KeepsContent(data) ==
    IF data.lang # "jsonld" \/ ~data.wf
    THEN {Parsed(<<>>, "error")}
    ELSE IF data.idkind = "string"
         THEN {Parsed(<<rdfTriple(data.idval,
                                  "http://www.w3.org/1999/02/22-rdf-syntax-ns#type",
                                  <<"content", data.n>>, FALSE)>>, "none")}
         ELSE {Parsed(<<>>, "none")}

\* json.Unmarshal, Expand and ToRDF, then one triple made from a string
\* "@id"; an "@id" that is no string fails the expansion or is passed over
parseJSONLDToTriples(data) ==
    IF data.lang # "jsonld" \/ ~data.wf
    THEN {Parsed(<<>>, "error")}
    ELSE IF data.idkind = "string"
         THEN {Parsed(<<rdfTriple(data.idval,
                                  "http://www.w3.org/1999/02/22-rdf-syntax-ns#type",
                                  "http://www.w3.org/2000/01/rdf-schema#Resource",
                                  FALSE)>>, "none")}
         ELSE IF data.idkind = "nonstring"
              THEN {Parsed(<<>>, "error"), Parsed(<<>>, "none")}
              ELSE {Parsed(<<>>, "none")}

\* the orders in which a loop over graph.IterTriples() can meet the triples
Orders(triples) ==
    LET n == Len(triples)
        perms == { f \in [1..n -> 1..n] : \A i, j \in 1..n : i # j => f[i] # f[j] }
    IN  { [i \in 1..n |-> triples[f[i]]] : f \in perms }

\* IsLiteral is whether the object's RawValue() begins with a quote: never
\* for an IRI, and for a literal as the library's RawValue() has it
FromGraph(triples) ==
    { t \in [1..Len(triples) -> { rdfTriple(x.Subject, x.Predicate, x.Object, lit)
                                    : x \in Range(triples), lit \in BOOLEAN }] :
        \A i \in 1..Len(triples) :
            /\ t[i].Subject = triples[i].Subject
            /\ t[i].Predicate = triples[i].Predicate
            /\ t[i].Object = triples[i].Object
            /\ t[i].IsLiteral => triples[i].IsLiteral }

parseTurtleToTriples(data) ==
    IF data = EmptyText
    THEN {Parsed(<<>>, "error"), Parsed(<<>>, "none")}
    ELSE IF data.lang \notin {"turtle", "ntriples"} \/ ~data.wf
         THEN {Parsed(<<>>, "error")}
         ELSE { Parsed(t, "none") : t \in UNION { FromGraph(o) : o \in Orders(data.triples) } }

\* the decoder's triples in the order of the document, up to io.EOF
Decoded(triples) ==
    [i \in 1..Len(triples) |->
        rdfTriple(triples[i].Subject, triples[i].Predicate, triples[i].Object,
                  triples[i].IsLiteral)]

parseRDFXMLToTriples(data) ==
    IF data = EmptyText
    THEN {Parsed(<<>>, "error"), Parsed(<<>>, "none")}
    ELSE IF data.lang # "rdfxml" \/ ~data.wf
         THEN {Parsed(<<>>, "error")}
         ELSE {Parsed(Decoded(data.triples), "none")}

parseN3ToTriples(data) == parseTurtleToTriples(data)

parseNTriplesToTriples(data) ==
    IF data = EmptyText
    THEN {Parsed(<<>>, "none")}
    ELSE IF data.lang # "ntriples" \/ ~data.wf
         THEN {Parsed(<<>>, "error")}
         ELSE {Parsed(Decoded(data.triples), "none")}

EmptyString == [kind |-> "empty"]

\* the object under each predicate is that of the last triple carrying it
serializeTriplesToJSONLD(triples) ==
    IF triples = <<>>
    THEN [kind |-> "json", members |-> <<>>]
    ELSE LET preds == { triples[i].Predicate : i \in 1..Len(triples) }
             last(p) == CHOOSE i \in 1..Len(triples) :
                            /\ triples[i].Predicate = p
                            /\ \A j \in 1..Len(triples) :
                                   triples[j].Predicate = p => j <= i
         IN  [kind |-> "json",
              members |-> [k \in {"@id"} \cup preds |->
                              IF k = "@id" THEN triples[1].Subject
                              ELSE [Object |-> triples[last(k)].Object,
                                    IsLiteral |-> triples[last(k)].IsLiteral]]]

\* one line "<s> <p> <o> ." or "<s> <p> "o" ." for each triple
serializeTriplesToTurtle(triples) ==
    IF triples = <<>> THEN EmptyString
    ELSE [kind |-> "lines", lines |-> triples]

\* one rdf:Description about the first subject, holding that subject's triples
serializeTriplesToRDFXML(triples) ==
    IF triples = <<>>
    THEN [kind |-> "rdfxml", descriptions |-> <<>>]
    ELSE LET subject == triples[1].Subject
         IN  [kind |-> "rdfxml",
              descriptions |-> <<[about |-> subject,
                                  properties |-> SelectSeq(triples,
                                      LAMBDA t : t.Subject = subject)]>>]

serializeTriplesToN3(triples) == serializeTriplesToTurtle(triples)

serializeTriplesToNTriples(triples) ==
    IF triples = <<>> THEN EmptyString
    ELSE [kind |-> "lines", lines |-> triples]

Converted(text, err) == [result |-> text, err |-> err]

\* the second switch of ConvertFormat
serialize(triples, toFormat) ==
    CASE toFormat = FormatJSONLD -> Converted(serializeTriplesToJSONLD(triples), <<"none">>)
      [] toFormat = FormatTurtle -> Converted(serializeTriplesToTurtle(triples), <<"none">>)
      [] toFormat = FormatRDFXML -> Converted(serializeTriplesToRDFXML(triples), <<"none">>)
      [] toFormat = FormatN3 -> Converted(serializeTriplesToN3(triples), <<"none">>)
      [] toFormat = FormatNTriples -> Converted(serializeTriplesToNTriples(triples), <<"none">>)
      [] OTHER -> Converted(EmptyString, <<"unsupported target format", toFormat>>)

\* a switch that reads application/rdf+json as JSON-LD
parse_AcceptsRDFJSON(data, fromFormat) ==
    CASE fromFormat \in {FormatJSONLD, FormatRDFJSON} -> parseJSONLDToTriples(data)
      [] fromFormat = FormatTurtle -> parseTurtleToTriples(data)
      [] fromFormat = FormatRDFXML -> parseRDFXMLToTriples(data)
      [] fromFormat = FormatN3 -> parseN3ToTriples(data)
      [] fromFormat = FormatNTriples -> parseNTriplesToTriples(data)
      [] OTHER -> {}

\* the first switch of ConvertFormat; {} stands for its default case
parse(data, fromFormat) ==
    CASE fromFormat = FormatJSONLD -> parseJSONLDToTriples(data)
      [] fromFormat = FormatTurtle -> parseTurtleToTriples(data)
      [] fromFormat = FormatRDFXML -> parseRDFXMLToTriples(data)
      [] fromFormat = FormatN3 -> parseN3ToTriples(data)
      [] fromFormat = FormatNTriples -> parseNTriplesToTriples(data)
      [] OTHER -> {}

\* ConvertFormat testing the target format before the source format
ConvertFormat_TargetFirst(data, fromFormat, toFormat) ==
    IF serialize(<<>>, toFormat).err # <<"none">>
    THEN {serialize(<<>>, toFormat)}
    ELSE IF parse(data, fromFormat) = {}
    THEN {Converted(EmptyString, <<"unsupported source format", fromFormat>>)}
    ELSE { IF p.err # "none"
           THEN Converted(EmptyString, <<"failed to parse source data">>)
           ELSE serialize(p.triples, toFormat)
           : p \in parse(data, fromFormat) }

\* the set of (result, error) pairs a call can return
ConvertFormat(data, fromFormat, toFormat) ==
    IF parse(data, fromFormat) = {}
    THEN {Converted(EmptyString, <<"unsupported source format", fromFormat>>)}
    ELSE { IF p.err # "none"
           THEN Converted(EmptyString, <<"failed to parse source data">>)
           ELSE serialize(p.triples, toFormat)
           : p \in parse(data, fromFormat) }

-----------------------------------------------------------------------------
(* Domain events *)

NewResourceCreatedEvent(resourceID, data, contentType, extractedID, t) ==
    [type |-> "resource.created", resourceID |-> resourceID, data |-> data,
     contentType |-> contentType, extractedID |-> extractedID,
     occurredAt |-> t, version |-> 1]

NewResourceURIAssignedEvent(resourceID, uri, t) ==
    [type |-> "resource.uri_assigned", resourceID |-> resourceID, uri |-> uri,
     occurredAt |-> t, version |-> 1]

NewResourceUpdatedEvent(resourceID, previousData, newData, contentType, t) ==
    [type |-> "resource.updated", resourceID |-> resourceID,
     previousData |-> previousData, newData |-> newData,
     contentType |-> contentType, occurredAt |-> t, version |-> 1]

NewResourceDeletedEvent(resourceID, uri, t) ==
    [type |-> "resource.deleted", resourceID |-> resourceID, uri |-> uri,
     occurredAt |-> t, version |-> 1]

SetVersion(e, version) == [e EXCEPT !.version = version]

-----------------------------------------------------------------------------
(* The embedded entity (pericarp domain.Entity) *)

NewEntity(id) ==
    [id |-> id, version |-> 1, sequenceNo |-> 0, uncommittedEvents |-> <<>>]

AddEvent(r0, e) ==
    [r0 EXCEPT !.Entity =
        [@ EXCEPT !.version = @ + 1,
                  !.sequenceNo = @ + 1,
                  !.uncommittedEvents = Append(@, SetVersion(e, r0.Entity.version + 1))]]

\* commit that also forgets the accumulated errors
MarkEventsAsCommitted_ClearsErrors(r0) ==
    [r0 EXCEPT !.Entity.uncommittedEvents = <<>>, !.errors = <<>>]

MarkEventsAsCommitted(r0) == [r0 EXCEPT !.Entity.uncommittedEvents = <<>>]

ID(r0) == r0.Entity.id
UncommittedEvents(r0) == r0.Entity.uncommittedEvents

-----------------------------------------------------------------------------
(* BasicResource *)

NoETag == <<>>      \* the Go string "" in the etag field

NewBasicResource(t) ==
    [Entity |-> NewEntity(""), uri |-> "", contentType |-> "", data |-> EmptyText,
     lastModified |-> t, etag |-> NoETag, errors |-> <<>>]

HasErrors(r0) == Len(r0.errors) > 0
hasErrorsInChain(r0) == HasErrors(r0)
AddError(r0, err) == [r0 EXCEPT !.errors = Append(@, err)]

applyResourceCreatedEvent(r0, e) ==
    [r0 EXCEPT !.data = e.data, !.contentType = e.contentType,
               !.lastModified = e.occurredAt, !.etag = NoETag]

\* the URI assignment applied without dropping the cached etag
applyResourceURIAssignedEvent_KeepsETag(r0, e) ==
    [r0 EXCEPT !.uri = e.uri, !.lastModified = e.occurredAt]

applyResourceURIAssignedEvent(r0, e) ==
    [r0 EXCEPT !.uri = e.uri, !.lastModified = e.occurredAt, !.etag = NoETag]

applyResourceUpdatedEvent(r0, e) ==
    [r0 EXCEPT !.data = e.newData, !.contentType = e.contentType,
               !.lastModified = e.occurredAt, !.etag = NoETag]

applyResourceDeletedEvent(r0, e) ==
    [r0 EXCEPT !.lastModified = e.occurredAt, !.etag = NoETag]

\* create with the entity replaced whether or not an id is set
create_AlwaysNewEntity(r0, resourceID, data, contentType, t) ==
    LET r1 == [r0 EXCEPT !.Entity = NewEntity(resourceID)]
        createdEvent == NewResourceCreatedEvent(resourceID, data, contentType, resourceID, t)
    IN  applyResourceCreatedEvent(AddEvent(r1, createdEvent), createdEvent)

\* the part the three creation methods share, after validation succeeded
create(r0, resourceID, data, contentType, t) ==
    LET r1 == IF ID(r0) = "" THEN [r0 EXCEPT !.Entity = NewEntity(resourceID)] ELSE r0
        createdEvent == NewResourceCreatedEvent(resourceID, data, contentType, resourceID, t)
    IN  applyResourceCreatedEvent(AddEvent(r1, createdEvent), createdEvent)

\* FromJSONLD dropping the cached etag when validation fails
FromJSONLD_ResetOnFailure(r0, data, out, t) ==
    IF data = EmptyText THEN AddError(r0, "empty JSON-LD data")
    ELSE IF hasErrorsInChain(r0) THEN r0
    ELSE IF out.err # "none"
         THEN AddError([r0 EXCEPT !.etag = NoETag], "JSON-LD validation failed")
    ELSE create(r0, out.id, data, "application/ld+json", t)

\* out is the validator's outcome, consulted only where the code calls it
FromJSONLD(r0, data, out, t) ==
    IF data = EmptyText THEN AddError(r0, "empty JSON-LD data")
    ELSE IF hasErrorsInChain(r0) THEN r0
    ELSE IF out.err # "none" THEN AddError(r0, "JSON-LD validation failed")
    ELSE create(r0, out.id, data, "application/ld+json", t)

\* FromTurtle recording the JSON-LD content type
FromTurtle_WrongContentType(r0, data, out, t) ==
    IF data = EmptyText THEN AddError(r0, "empty Turtle data")
    ELSE IF hasErrorsInChain(r0) THEN r0
    ELSE IF out.err # "none" THEN AddError(r0, "Turtle validation failed")
    ELSE create(r0, out.id, data, "application/ld+json", t)

FromTurtle(r0, data, out, t) ==
    IF data = EmptyText THEN AddError(r0, "empty Turtle data")
    ELSE IF hasErrorsInChain(r0) THEN r0
    ELSE IF out.err # "none" THEN AddError(r0, "Turtle validation failed")
    ELSE create(r0, out.id, data, "text/turtle", t)

FromRDFXML(r0, data, out, t) ==
    IF data = EmptyText THEN AddError(r0, "empty RDF/XML data")
    ELSE IF hasErrorsInChain(r0) THEN r0
    ELSE IF out.err = "panic" THEN r0
    ELSE IF out.err # "none" THEN AddError(r0, "RDF/XML validation failed")
    ELSE create(r0, out.id, data, "application/rdf+xml", t)

\* WithURI refusing a Resource that has no id yet
WithURI_RequiresID(r0, uri, t) ==
    IF uri = "" THEN AddError(r0, "invalid URI")
    ELSE IF hasErrorsInChain(r0) THEN r0
    ELSE IF ID(r0) = "" THEN AddError(r0, "resource not created")
    ELSE LET uriEvent == NewResourceURIAssignedEvent(ID(r0), uri, t)
         IN  applyResourceURIAssignedEvent(AddEvent(r0, uriEvent), uriEvent)

\* WithURI with the error flag tested before the argument
WithURI_FlagFirst(r0, uri, t) ==
    IF hasErrorsInChain(r0) THEN r0
    ELSE IF uri = "" THEN AddError(r0, "invalid URI")
    ELSE LET uriEvent == NewResourceURIAssignedEvent(ID(r0), uri, t)
         IN  applyResourceURIAssignedEvent(AddEvent(r0, uriEvent), uriEvent)

WithURI(r0, uri, t) ==
    IF uri = "" THEN AddError(r0, "invalid URI")
    ELSE IF hasErrorsInChain(r0) THEN r0
    ELSE LET uriEvent == NewResourceURIAssignedEvent(ID(r0), uri, t)
         IN  applyResourceURIAssignedEvent(AddEvent(r0, uriEvent), uriEvent)

\* Update recording the new data as the previous data
Update_PreviousIsNew(r0, data, contentType, t) ==
    IF hasErrorsInChain(r0) THEN r0
    ELSE IF data = EmptyText THEN AddError(r0, "empty update data")
    ELSE LET updateEvent == NewResourceUpdatedEvent(ID(r0), data, data, contentType, t)
         IN  applyResourceUpdatedEvent(AddEvent(r0, updateEvent), updateEvent)

\* Update applying its event without adding it to the entity
Update_NotAdded(r0, data, contentType, t) ==
    IF hasErrorsInChain(r0) THEN r0
    ELSE IF data = EmptyText THEN AddError(r0, "empty update data")
    ELSE LET previousData == r0.data
             updateEvent == NewResourceUpdatedEvent(ID(r0), previousData, data, contentType, t)
         IN  applyResourceUpdatedEvent(r0, updateEvent)

Update(r0, data, contentType, t) ==
    IF hasErrorsInChain(r0) THEN r0
    ELSE IF data = EmptyText THEN AddError(r0, "empty update data")
    ELSE LET previousData == r0.data
             updateEvent == NewResourceUpdatedEvent(ID(r0), previousData, data, contentType, t)
         IN  applyResourceUpdatedEvent(AddEvent(r0, updateEvent), updateEvent)

\* Delete recording no URI in its event
Delete_NoURI(r0, t) ==
    IF hasErrorsInChain(r0) THEN r0
    ELSE LET deleteEvent == NewResourceDeletedEvent(ID(r0), "", t)
         IN  applyResourceDeletedEvent(AddEvent(r0, deleteEvent), deleteEvent)

\* Delete without the test of the error flag
Delete_Unguarded(r0, t) ==
    LET deleteEvent == NewResourceDeletedEvent(ID(r0), r0.uri, t)
    IN  applyResourceDeletedEvent(AddEvent(r0, deleteEvent), deleteEvent)

Delete(r0, t) ==
    IF hasErrorsInChain(r0) THEN r0
    ELSE LET deleteEvent == NewResourceDeletedEvent(ID(r0), r0.uri, t)
         IN  applyResourceDeletedEvent(AddEvent(r0, deleteEvent), deleteEvent)

\* the type switch of LoadFromHistory; an event of another type is passed over
applyEvent(r0, e) ==
    CASE e.type = "resource.created" -> applyResourceCreatedEvent(r0, e)
      [] e.type = "resource.uri_assigned" -> applyResourceURIAssignedEvent(r0, e)
      [] e.type = "resource.updated" -> applyResourceUpdatedEvent(r0, e)
      [] e.type = "resource.deleted" -> applyResourceDeletedEvent(r0, e)
      [] OTHER -> r0

RECURSIVE applyEvents(_, _)
applyEvents(r0, events) ==
    IF events = <<>> THEN r0
    ELSE applyEvents(applyEvent(r0, Head(events)), Tail(events))

\* the embedded entity's LoadFromHistory: the counters advance by the stream
EntityLoadFromHistory(r0, events) ==
    [r0 EXCEPT !.Entity.version = @ + Len(events),
               !.Entity.sequenceNo = @ + Len(events)]

\* replay that passes over a creation event without data
LoadFromHistory_Validating(r0, events) ==
    EntityLoadFromHistory(
        applyEvents(r0, SelectSeq(events,
            LAMBDA e : e.type # "resource.created" \/ e.data # EmptyText)),
        events)

LoadFromHistory(r0, events) ==
    EntityLoadFromHistory(applyEvents(r0, events), events)

Unix(t) == t \div TicksPerSecond

\* a hash of the data alone
ETagOf_DataOnly(data, lastModified) == <<data>>

\* md5 of "<data>-<unix seconds>", taken as injective
ETagOf(data, lastModified) == <<data, Unix(lastModified)>>

\* GetETag hashing the time of the call, with no cache
GetETag_Unmemoized(r0, t) ==
    [r0 EXCEPT !.etag = ETagOf(r0.data, t)]

\* GetETag fills the cache and returns it; t is the clock at the call, which
\* the code does not read
GetETag(r0, t) ==
    IF r0.etag = NoETag
    THEN [r0 EXCEPT !.etag = ETagOf(r0.data, r0.lastModified)]
    ELSE r0

-----------------------------------------------------------------------------
(* Calls *)

Call(op, data, uri, ct) == [op |-> op, data |-> data, uri |-> uri, ct |-> ct]

CanCall == ~panicked /\ Len(trace) < MaxOps

Creations == {"FromJSONLD", "FromTurtle", "FromRDFXML"}

Replicas == {1, 2}
NoResource == [absent |-> TRUE]     \* a replica not constructed yet
NoCheck == [absent |-> TRUE]        \* no validator called yet
NoConversion == [absent |-> TRUE]   \* ConvertFormat not called yet

\* history kept by every call that is not GetETag
Log(c, r1) ==
    /\ call' = c
    /\ trace' = Append(trace, c.op)
    /\ applied' = IF UncommittedEvents(r1) # UncommittedEvents(r)
                     /\ c.op # "MarkEventsAsCommitted"
                  THEN applied + 1 ELSE applied
    /\ UNCHANGED <<result, history, replica, before, checked, converted>>

Init ==
    /\ now = 0
    /\ r = NewBasicResource(now)
    /\ panicked = FALSE
    /\ call = Call("NewBasicResource", EmptyText, "", "")
    /\ trace = <<>>
    /\ applied = 0
    /\ result = [etag |-> NoETag, applied |-> -1]
    /\ history = <<>>
    /\ replica = [i \in Replicas |-> NoResource]
    /\ before = [i \in Replicas |-> NoResource]
    /\ checked = NoCheck
    /\ converted = NoConversion

Tick ==
    /\ now < MaxTime
    /\ now' = now + 1
    /\ UNCHANGED <<r, panicked, call, trace, applied, result,
                   history, replica, before, checked, converted>>

CallFromJSONLD ==
    \E data \in {EmptyText, Garbage} \cup JSONLDTexts :
    \E out \in ValidateJSONLD(data) :
        /\ CanCall
        /\ r' = FromJSONLD(r, data, out, now)
        /\ Log(Call("FromJSONLD", data, "", ""), r')
        /\ UNCHANGED <<now, panicked>>

CallFromTurtle ==
    \E data \in {EmptyText} \cup TurtleTexts :
    \E out \in ValidateTurtle(data) :
        /\ CanCall
        /\ r' = FromTurtle(r, data, out, now)
        /\ Log(Call("FromTurtle", data, "", ""), r')
        /\ UNCHANGED <<now, panicked>>

CallFromRDFXML ==
    \E data \in {EmptyText} \cup RDFXMLTexts :
    \E out \in ValidateRDFXML(data) :
        /\ CanCall
        /\ r' = FromRDFXML(r, data, out, now)
        /\ panicked' = (data # EmptyText /\ ~hasErrorsInChain(r) /\ out.err = "panic")
        /\ Log(Call("FromRDFXML", data, "", ""), r')
        /\ UNCHANGED now

CallWithURI ==
    \E uri \in URIs :
        /\ CanCall
        /\ r' = WithURI(r, uri, now)
        /\ Log(Call("WithURI", EmptyText, uri, ""), r')
        /\ UNCHANGED <<now, panicked>>

CallUpdate ==
    \E data \in {EmptyText, Garbage, JSONLDText("string", "a", 1)} :
    \E ct \in ContentTypes :
        /\ CanCall
        /\ r' = Update(r, data, ct, now)
        /\ Log(Call("Update", data, "", ct), r')
        /\ UNCHANGED <<now, panicked>>

CallDelete ==
    /\ CanCall
    /\ r' = Delete(r, now)
    /\ Log(Call("Delete", EmptyText, "", ""), r')
    /\ UNCHANGED <<now, panicked>>

CallMarkEventsAsCommitted ==
    /\ CanCall
    /\ r' = MarkEventsAsCommitted(r)
    /\ Log(Call("MarkEventsAsCommitted", EmptyText, "", ""), r')
    /\ UNCHANGED <<now, panicked>>

CallGetETag ==
    /\ CanCall
    /\ r' = GetETag(r, now)
    /\ result' = [etag |-> r'.etag, applied |-> applied]
    /\ call' = Call("GetETag", EmptyText, "", "")
    /\ trace' = Append(trace, "GetETag")
    /\ UNCHANGED <<now, panicked, applied, history, replica, before, checked, converted>>

Next ==
    \/ Tick
    \/ CallFromJSONLD
    \/ CallFromTurtle
    \/ CallFromRDFXML
    \/ CallWithURI
    \/ CallUpdate
    \/ CallDelete
    \/ CallMarkEventsAsCommitted
    \/ CallGetETag

Spec == Init /\ [][Next]_vars

-----------------------------------------------------------------------------
(* The validators called on their own.  A panic ends the program. *)

Check(validator, data, out) == [validator |-> validator, data |-> data, out |-> out]

Checks(validator, data, out) ==
    /\ checked' = Check(validator, data, out)
    /\ panicked' = (out.err = "panic")
    /\ UNCHANGED <<r, now, call, trace, applied, result, history, replica, before,
                   converted>>

CallValidateJSONLD ==
    \E data \in ValidationTexts : \E out \in ValidateJSONLD(data) :
        /\ ~panicked
        /\ Checks("ValidateJSONLD", data, out)

CallValidateTurtle ==
    \E data \in ValidationTexts : \E out \in ValidateTurtle(data) :
        /\ ~panicked
        /\ Checks("ValidateTurtle", data, out)

CallValidateRDFXML ==
    \E data \in ValidationTexts : \E out \in ValidateRDFXML(data) :
        /\ ~panicked
        /\ Checks("ValidateRDFXML", data, out)

CallValidateN3 ==
    \E data \in ValidationTexts : \E out \in ValidateN3(data) :
        /\ ~panicked
        /\ Checks("ValidateN3", data, out)

CallValidateNTriples ==
    \E data \in ValidationTexts : \E out \in ValidateNTriples(data) :
        /\ ~panicked
        /\ Checks("ValidateNTriples", data, out)

NextValidate ==
    \/ CallValidateJSONLD
    \/ CallValidateTurtle
    \/ CallValidateRDFXML
    \/ CallValidateN3
    \/ CallValidateNTriples

SpecValidate == Init /\ [][NextValidate]_vars

-----------------------------------------------------------------------------
(* The converter called on its own.  It keeps no state between calls, so   *)
(* a behaviour makes one call.                                             *)

\* the strings passed as formats: the five supported ones, the declared
\* application/rdf+json, another spelling of a supported one, an unknown one
Formats ==
    Range(SupportedFormats) \cup {FormatRDFJSON, "TEXT/TURTLE", "unsupported/x"}

\* the validators' texts and a second JSON-LD object with "@id": "a"
ConversionTexts == ValidationTexts \cup {JSONLDText("string", "a", 2)}

Conversion(data, fromFormat, toFormat, out) ==
    [data |-> data, fromFormat |-> fromFormat, toFormat |-> toFormat, out |-> out]

CallConvertFormat ==
    \E data \in ConversionTexts : \E fromFormat, toFormat \in Formats :
    \E out \in ConvertFormat(data, fromFormat, toFormat) :
        /\ converted = NoConversion
        /\ converted' = Conversion(data, fromFormat, toFormat, out)
        /\ UNCHANGED <<r, now, panicked, call, trace, applied, result,
                       history, replica, before, checked>>

NextConvert == CallConvertFormat

SpecConvert == Init /\ [][NextConvert]_vars

-----------------------------------------------------------------------------
(* Replay: a stream of stored events, and two Resources rebuilt from it.   *)
(* The stream is complete before the first Resource is constructed.        *)

\* an event of the stream that is none of the four resource events
OtherEvent(t) == [type |-> "other", occurredAt |-> t, version |-> 1]

\* what a store can hand back: nothing in it was validated
StoredEvents(t) ==
    { NewResourceCreatedEvent("a", EmptyText, "application/ld+json", "a", t),
      NewResourceURIAssignedEvent("a", "", t),
      NewResourceURIAssignedEvent("a", "u1", t),
      NewResourceUpdatedEvent("a", EmptyText, Garbage, "text/turtle", t),
      NewResourceDeletedEvent("a", "u1", t),
      OtherEvent(t) }

RecordEvent ==
    \E e \in StoredEvents(now) :
        /\ Len(history) < MaxHistory
        /\ \A i \in Replicas : replica[i] = NoResource
        /\ history' = Append(history, SetVersion(e, Len(history) + 2))
        /\ UNCHANGED <<r, now, panicked, call, trace, applied, result,
                       replica, before, checked, converted>>

CallNewBasicResource ==
    \E i \in Replicas :
        /\ replica[i] = NoResource
        /\ \A j \in Replicas : j < i => replica[j] # NoResource
        /\ replica' = [replica EXCEPT ![i] = NewBasicResource(now)]
        /\ UNCHANGED <<r, now, panicked, call, trace, applied, result,
                       history, before, checked, converted>>

\* a live call on a Resource before its replay: one that leaves an error,
\* one that leaves an uncommitted event, or one that fills the etag cache
CallBeforeReplay ==
    \E i \in Replicas :
        /\ replica[i] # NoResource
        /\ before[i] = NoResource
        /\ ~HasErrors(replica[i])
        /\ UncommittedEvents(replica[i]) = <<>>
        /\ replica[i].etag = NoETag
        /\ \E r1 \in { WithURI(replica[i], "", now),
                       Update(replica[i], JSONLDText("string", "a", 1),
                              "application/ld+json", now),
                       GetETag(replica[i], now) } :
               replica' = [replica EXCEPT ![i] = r1]
        /\ UNCHANGED <<r, now, panicked, call, trace, applied, result,
                       history, before, checked, converted>>

CallLoadFromHistory ==
    \E i \in Replicas :
        /\ replica[i] # NoResource
        /\ before[i] = NoResource
        /\ replica' = [replica EXCEPT ![i] = LoadFromHistory(replica[i], history)]
        /\ before' = [before EXCEPT ![i] = replica[i]]
        /\ UNCHANGED <<r, now, panicked, call, trace, applied, result,
                       history, checked, converted>>

NextReplay ==
    \/ Tick
    \/ RecordEvent
    \/ CallNewBasicResource
    \/ CallBeforeReplay
    \/ CallLoadFromHistory

SpecReplay == Init /\ [][NextReplay]_vars

-----------------------------------------------------------------------------
(* Vocabulary of the properties *)

Mutators == Creations \cup {"WithURI", "Update", "Delete"}

\* this step is a call of one of ops
Called(ops) == Len(trace') = Len(trace) + 1 /\ call'.op \in ops

\* the call of this step passes the empty string where the code tests for it
EmptyArgument ==
    \/ call'.op \in Creations \cup {"Update"} /\ call'.data = EmptyText
    \/ call'.op = "WithURI" /\ call'.uri = ""

Validate(op, data) ==
    CASE op = "FromJSONLD" -> ValidateJSONLD(data)
      [] op = "FromTurtle" -> ValidateTurtle(data)
      [] op = "FromRDFXML" -> ValidateRDFXML(data)

ContentTypeOf(op) ==
    CASE op = "FromJSONLD" -> "application/ld+json"
      [] op = "FromTurtle" -> "text/turtle"
      [] op = "FromRDFXML" -> "application/rdf+xml"

EventTypeOf(op) ==
    CASE op \in Creations -> "resource.created"
      [] op = "WithURI" -> "resource.uri_assigned"
      [] op = "Update" -> "resource.updated"
      [] op = "Delete" -> "resource.deleted"

\* the observable state named by the claims is the same in r0 and r1
SameState(r0, r1) ==
    /\ ID(r1) = ID(r0)
    /\ r1.uri = r0.uri
    /\ r1.data = r0.data
    /\ r1.contentType = r0.contentType
    /\ r1.lastModified = r0.lastModified

-----------------------------------------------------------------------------
\* C1: once HasErrors() is true, a call of FromJSONLD, FromTurtle, FromRDFXML,
\* WithURI, Update or Delete, whatever its arguments, appends no event, leaves
\* id, uri, data, content type and last-modified as they were, and HasErrors()
\* is still true after it.
C1_ErrorShortCircuit ==
    [][ (HasErrors(r) /\ Called(Mutators)) =>
            /\ UncommittedEvents(r') = UncommittedEvents(r)
            /\ SameState(r, r')
            /\ HasErrors(r') ]_vars

\* a Delete has returned on a Resource that holds an event and had an error
C1_Witness ==
    /\ Len(trace) = 3
    /\ trace[1] \in Creations
    /\ call.op = "Delete"
    /\ Len(r.errors) = 1
    /\ Len(UncommittedEvents(r)) = 1

\* C2 as stated: once HasErrors() is true every call of a chained operation
\* appends exactly one error, and FromJSONLD("").WithURI(u), u non-empty, ends
\* with 2 errors and no event.
C2_OneErrorPerCall ==
    [][ /\ (HasErrors(r) /\ Called(Mutators)) =>
                Len(r'.errors) = Len(r.errors) + 1
        /\ (/\ trace = <<"FromJSONLD">> /\ call.data = EmptyText
            /\ Called({"WithURI"}) /\ call'.uri # "") =>
                (Len(r'.errors) = 2 /\ UncommittedEvents(r') = <<>>) ]_vars

\* C2, amended: once HasErrors() is true, a call of FromJSONLD, FromTurtle,
\* FromRDFXML or WithURI appends exactly one error when its argument is empty
\* and none when it is not, Delete and Update with non-empty data append none;
\* FromJSONLD("").WithURI(u), u non-empty, ends with 1 error and no event.
C2_ErrorOnlyOnEmptyArgument ==
    [][ /\ (/\ HasErrors(r) /\ Called(Mutators)
            /\ ~(call'.op = "Update" /\ call'.data = EmptyText)) =>
                Len(r'.errors) = Len(r.errors) + (IF EmptyArgument THEN 1 ELSE 0)
        /\ (/\ trace = <<"FromJSONLD">> /\ call.data = EmptyText
            /\ Called({"WithURI"}) /\ call'.uri # "") =>
                (Len(r'.errors) = 1 /\ UncommittedEvents(r') = <<>>) ]_vars

\* FromJSONLD("") then WithURI with a non-empty URI
C2_Witness ==
    /\ trace = <<"FromJSONLD", "WithURI">>
    /\ r.errors = <<"empty JSON-LD data">>
    /\ call.uri # ""

\* C3: a call with an empty argument (FromJSONLD, FromTurtle, FromRDFXML,
\* Update with data "", WithURI with uri "") appends exactly one error and no
\* event, whether or not the Resource already has errors.
C3_EmptyArgumentUniform ==
    [][ (Called(Mutators) /\ EmptyArgument) =>
            /\ Len(r'.errors) = Len(r.errors) + 1
            /\ UncommittedEvents(r') = UncommittedEvents(r) ]_vars

\* the validator of op can return an identifier for data, and which
Accepted(op, data) == { out.id : out \in { o \in Validate(op, data) : o.err = "none" } }

\* the validator of op returns an error for data
Rejects(op, data) == \A out \in Validate(op, data) : out.err \notin {"none", "panic"}

\* C4: on a fresh Resource, FromJSONLD / FromTurtle / FromRDFXML of a text its
\* validator accepts with identifier X leaves id() = X, no error and exactly
\* one uncommitted event, a ResourceCreatedEvent with Data the input text,
\* ExtractedID X and the content type of the format; data and content type of
\* the aggregate are those of the event.
C4_SuccessfulCreation ==
    (/\ Len(trace) = 1 /\ call.op \in Creations /\ ~panicked
     /\ Accepted(call.op, call.data) # {}) =>
        LET events == UncommittedEvents(r) IN
        /\ ~HasErrors(r)
        /\ ID(r) \in Accepted(call.op, call.data)
        /\ Len(events) = 1
        /\ events[1].type = "resource.created"
        /\ events[1].data = call.data
        /\ events[1].extractedID = ID(r)
        /\ events[1].contentType = ContentTypeOf(call.op)
        /\ r.data = events[1].data
        /\ r.contentType = events[1].contentType

\* a fresh Resource was created from Turtle whose subject is b
C4_Witness ==
    /\ trace = <<"FromTurtle">>
    /\ ID(r) = "b"
    /\ Len(UncommittedEvents(r)) = 1

\* what a failed creation call is claimed to do
FailedCreation(r0, r1) ==
    /\ Len(r1.errors) = Len(r0.errors) + 1
    /\ SubSeq(r1.errors, 1, Len(r0.errors)) = r0.errors
    /\ SameState(r0, r1)
    /\ r1.etag = r0.etag
    /\ UncommittedEvents(r1) = UncommittedEvents(r0)

\* C5 as stated: FromJSONLD / FromTurtle / FromRDFXML given empty data, or
\* data its validator rejects, appends exactly one error and leaves id, uri,
\* data, content type, last-modified, the cached etag and the uncommitted
\* events unchanged.
C5_FailedCreationFrame ==
    [][ (/\ Called(Creations)
         /\ (call'.data = EmptyText \/ Rejects(call'.op, call'.data))) =>
            FailedCreation(r, r') ]_vars

\* C5, amended: the same, for empty data in any state and for data the
\* validator rejects on a Resource that has no errors yet (with errors present
\* the validator is not consulted and no error is appended).
C5_FailedCreationFrameFirstError ==
    [][ (/\ Called(Creations)
         /\ \/ call'.data = EmptyText
            \/ ~HasErrors(r) /\ Rejects(call'.op, call'.data)) =>
            FailedCreation(r, r') ]_vars

\* a rejected text was given to a Resource holding an event and a cached etag
C5_Witness ==
    /\ Len(trace) = 3
    /\ call.op \in Creations
    /\ call.data # EmptyText
    /\ Rejects(call.op, call.data)
    /\ Len(r.errors) = 1
    /\ Len(UncommittedEvents(r)) = 1
    /\ r.etag # NoETag

\* C6: once id() is non-empty no call changes it (creation calls whose text
\* extracts another identifier included); WithURI(u) sets uri and never id.
C6_IdentifierImmutable ==
    [][ /\ ID(r) # "" => ID(r') = ID(r)
        /\ Called({"WithURI"}) =>
              /\ ID(r') = ID(r)
              /\ ~HasErrors(r') => r'.uri = call'.uri ]_vars

\* a Resource with id a has taken a second creation, from a text with @id b
C6_Witness ==
    /\ ID(r) = "a"
    /\ call.op = "FromJSONLD"
    /\ call.data = JSONLDText("string", "b", 1)
    /\ ~HasErrors(r)
    /\ Len(UncommittedEvents(r)) = 2

\* C7: every event appended to a Resource has AggregateID equal to the
\* Resource's id() when it is appended, also the creation event of a second
\* creation call whose text extracts a different identifier.
C7_EventBoundToAggregate ==
    [][ (Called(Mutators) /\ UncommittedEvents(r') # UncommittedEvents(r)) =>
            LET events == UncommittedEvents(r') IN
            events[Len(events)].resourceID = ID(r') ]_vars

\* C8: on a fresh Resource, a successful creation call followed by successful
\* WithURI / Update / Delete calls (no MarkEventsAsCommitted between) leaves
\* in UncommittedEvents() exactly one event per call, in call order, each of
\* the variant of its operation.
C8_EventOrdering ==
    (/\ Len(trace) >= 1 /\ trace[1] \in Creations
     /\ \A i \in 2..Len(trace) : trace[i] \in {"WithURI", "Update", "Delete"}
     /\ ~HasErrors(r) /\ ~panicked) =>
        LET events == UncommittedEvents(r) IN
        /\ Len(events) = Len(trace)
        /\ \A i \in 1..Len(trace) : events[i].type = EventTypeOf(trace[i])

\* FromJSONLD(valid).WithURI(u).Update(d, ct) has returned without error
C8_Witness ==
    /\ trace = <<"FromJSONLD", "WithURI", "Update">>
    /\ ~HasErrors(r)
    /\ Len(UncommittedEvents(r)) = 3

\* C9: MarkEventsAsCommitted empties the uncommitted events and changes
\* nothing else (errors, id, uri, data, content type, last-modified, the etag
\* value); the operation that succeeds next leaves exactly its own event.
C9_MarkEventsAsCommitted ==
    [][ /\ Called({"MarkEventsAsCommitted"}) =>
              /\ UncommittedEvents(r') = <<>>
              /\ r'.errors = r.errors
              /\ SameState(r, r')
              /\ r'.etag = r.etag
              /\ GetETag(r', now').etag = GetETag(r, now).etag
        /\ (/\ call.op = "MarkEventsAsCommitted" /\ Called(Mutators)
            /\ UncommittedEvents(r') # <<>>) =>
              /\ Len(UncommittedEvents(r')) = 1
              /\ UncommittedEvents(r')[1].type = EventTypeOf(call'.op) ]_vars

\* events were committed and a Delete then left its event alone in the list
C9_Witness ==
    /\ trace = <<"FromJSONLD", "MarkEventsAsCommitted", "Delete">>
    /\ ~HasErrors(r)
    /\ Len(UncommittedEvents(r)) = 1
    /\ UncommittedEvents(r)[1].type = "resource.deleted"

\* C10: GetETag() returns what the previous GetETag() returned when no event
\* was applied between the two, and it changes none of id, uri, data, content
\* type, last-modified, errors and uncommitted events.
C10_GetETagStable ==
    [][ Called({"GetETag"}) =>
            /\ result.applied = applied => result'.etag = result.etag
            /\ SameState(r, r')
            /\ r'.errors = r.errors
            /\ UncommittedEvents(r') = UncommittedEvents(r) ]_vars

\* GetETag() was called twice, a failed WithURI and the turn of a clock second
\* between the two calls
C10_Witness ==
    /\ Len(trace) = 3
    /\ trace[1] = "GetETag"
    /\ trace[2] = "WithURI"
    /\ trace[3] = "GetETag"
    /\ result.applied = applied
    /\ Unix(now) > Unix(r.lastModified)

\* the last element of a non-empty sequence
Last(seq) == seq[Len(seq)]

\* this step is an Update that passes both of the code's checks
UpdateSucceeds == Called({"Update"}) /\ ~HasErrors(r) /\ call'.data # EmptyText

\* C11 as stated: after every successful Update, also one that passes the
\* current data again or falls in the clock second of the previous event,
\* GetETag() differs from what it returned immediately before.
C11_ETagChangesOnUpdate ==
    [][ UpdateSucceeds => GetETag(r', now').etag # GetETag(r, now).etag ]_vars

\* C11, amended: after a successful Update GetETag() differs from its value
\* immediately before exactly when the new data differs from the current data
\* or the update falls in another clock second than the last modification; an
\* Update with the same data within the same second leaves it unchanged.
C11_ETagChangesWithDataOrSecond ==
    [][ UpdateSucceeds =>
            ( GetETag(r', now').etag # GetETag(r, now).etag
              <=> (call'.data # r.data \/ Unix(now) # Unix(r.lastModified)) ) ]_vars

\* two Updates with the same data were applied within one clock second
C11_Witness ==
    /\ trace = <<"Update", "Update">>
    /\ ~HasErrors(r)
    /\ Len(UncommittedEvents(r)) = 2
    /\ UncommittedEvents(r)[1].newData = UncommittedEvents(r)[2].newData
    /\ Unix(UncommittedEvents(r)[1].occurredAt) = Unix(UncommittedEvents(r)[2].occurredAt)

\* the data carried by the closest Created/Updated event before position i
DataBefore(events, i) ==
    LET js == { j \in 1..(i - 1) : events[j].type \in {"resource.created", "resource.updated"} }
    IN  IF js = {} THEN EmptyText
        ELSE LET j == CHOOSE k \in js : \A l \in js : l <= k
             IN  IF events[j].type = "resource.created"
                 THEN events[j].data ELSE events[j].newData

\* C12: the ResourceUpdatedEvent of Update(d, ct) carries PreviousData equal to
\* the data before the call and NewData d, and afterwards data is d and the
\* content type ct; so in the events emitted since construction each Updated
\* event's PreviousData is the data of the closest preceding Created / Updated
\* event, or "" when there is none.
C12_UpdateAuditChain ==
    [][ /\ UpdateSucceeds =>
              LET e == Last(UncommittedEvents(r')) IN
              /\ Len(UncommittedEvents(r')) = Len(UncommittedEvents(r)) + 1
              /\ e.type = "resource.updated"
              /\ e.previousData = r.data
              /\ e.newData = call'.data
              /\ r'.data = call'.data
              /\ r'.contentType = call'.ct
        /\ (\A i \in 1..Len(trace') : trace'[i] # "MarkEventsAsCommitted") =>
              LET events == UncommittedEvents(r') IN
              \A i \in 1..Len(events) :
                  events[i].type = "resource.updated" =>
                      events[i].previousData = DataBefore(events, i) ]_vars

\* a creation and two Updates with different data are in the event list
C12_Witness ==
    /\ trace = <<"FromJSONLD", "Update", "Update">>
    /\ ~HasErrors(r)
    /\ Len(UncommittedEvents(r)) = 3
    /\ UncommittedEvents(r)[3].previousData = UncommittedEvents(r)[2].newData
    /\ UncommittedEvents(r)[2].newData # UncommittedEvents(r)[1].data
    /\ UncommittedEvents(r)[3].newData # UncommittedEvents(r)[2].newData

\* C13: Delete on a Resource without errors appends exactly one
\* ResourceDeletedEvent, whose URI is the uri at the time of the call, and
\* leaves id, uri, data and content type (and the errors) unchanged; of the
\* derived fields only last-modified and the etag cache are written.
C13_DeleteFrame ==
    [][ (Called({"Delete"}) /\ ~HasErrors(r)) =>
            LET e == Last(UncommittedEvents(r')) IN
            /\ UncommittedEvents(r') = Append(UncommittedEvents(r), e)
            /\ e.type = "resource.deleted"
            /\ e.uri = r.uri
            /\ ID(r') = ID(r)
            /\ r'.uri = r.uri
            /\ r'.data = r.data
            /\ r'.contentType = r.contentType
            /\ r'.errors = r.errors
            /\ r'.lastModified = e.occurredAt
            /\ r'.etag = NoETag ]_vars

\* a created Resource with an assigned URI was deleted
C13_Witness ==
    /\ trace = <<"FromJSONLD", "WithURI", "Delete">>
    /\ ~HasErrors(r)
    /\ r.uri = "u2"
    /\ r.data # EmptyText
    /\ Last(UncommittedEvents(r)).uri = "u2"

\* C14: in the events a Resource emits through its live operations no event
\* (Created, URIAssigned, Updated, a second Deleted) follows a Deleted event.
C14_DeletedIsFinal ==
    \A i \in 1..(Len(UncommittedEvents(r)) - 1) :
        UncommittedEvents(r)[i].type # "resource.deleted"

\* this step is a WithURI, Update or Delete that passes the code's checks
LaterOperationSucceeds ==
    /\ Called({"WithURI", "Update", "Delete"})
    /\ ~HasErrors(r)
    /\ ~EmptyArgument

\* C15 as stated: WithURI, Update and Delete called on an Uninitialized
\* Resource (id() = "") emit no event, so the first event emitted is always a
\* ResourceCreatedEvent.
C15_CreationComesFirst ==
    [][ (Called({"WithURI", "Update", "Delete"}) /\ ID(r) = "") =>
            UncommittedEvents(r') = UncommittedEvents(r) ]_vars

\* C15, amended: WithURI, Update and Delete called with non-empty arguments
\* on an Uninitialized Resource without errors do emit their URIAssigned /
\* Updated / Deleted event, with an empty AggregateID; the first event emitted
\* is a ResourceCreatedEvent only when a creation call comes first.
C15_UninitializedStillEmits ==
    [][ (LaterOperationSucceeds /\ ID(r) = "") =>
            /\ Len(UncommittedEvents(r')) = Len(UncommittedEvents(r)) + 1
            /\ SubSeq(UncommittedEvents(r'), 1, Len(UncommittedEvents(r)))
                   = UncommittedEvents(r)
            /\ Last(UncommittedEvents(r')).type = EventTypeOf(call'.op)
            /\ Last(UncommittedEvents(r')).resourceID = ""
            /\ ID(r') = "" ]_vars

\* WithURI on a fresh Resource has left a URIAssigned event first in the list
C15_Witness ==
    /\ trace = <<"WithURI">>
    /\ ID(r) = ""
    /\ ~HasErrors(r)
    /\ Len(UncommittedEvents(r)) = 1
    /\ UncommittedEvents(r)[1].type = "resource.uri_assigned"

\* C18: over the live operations Version() and SequenceNo() never decrease
\* and every appended event advances both, also when a creation call follows
\* WithURI / Update / Delete on a Resource whose id is still empty.
C18_VersionMonotonic ==
    [][ Called(Mutators \cup {"MarkEventsAsCommitted"}) =>
            /\ r'.Entity.version >= r.Entity.version
            /\ r'.Entity.sequenceNo >= r.Entity.sequenceNo
            /\ applied' = applied + 1 =>
                  /\ r'.Entity.version > r.Entity.version
                  /\ r'.Entity.sequenceNo > r.Entity.sequenceNo ]_vars

\* the last validator call was of this validator
Checked(validator) == checked # NoCheck /\ checked.validator = validator

\* C19: ValidateJSONLD returns an identifier without error only for a
\* top-level "@id" that is a non-empty string, and returns that string; a
\* missing, non-string or empty "@id" yields an error with no identifier, and
\* malformed JSON yields the syntax error.
C19_ValidateJSONLD ==
    Checked("ValidateJSONLD") =>
        LET data == checked.data
            out == checked.out
            isJSON == data.lang = "jsonld" /\ data.wf
        IN  /\ out.err = "none" =>
                  /\ isJSON
                  /\ data.idkind = "string"
                  /\ data.idval # ""
                  /\ out.id = data.idval
            /\ (isJSON /\ (data.idkind # "string" \/ data.idval = "")) =>
                  out.err # "none" /\ out.id = ""
            /\ ~isJSON => out.err = "Invalid JSON syntax" /\ out.id = ""

\* the text is the empty string or a document without a triple
NoTriple(data) ==
    \/ data = EmptyText
    \/ data.lang \in TripleLangs /\ data.wf /\ data.triples = <<>>

\* C20: every validator called with the empty string, or with a text whose
\* decoding ends without a triple, returns an error and an empty identifier;
\* it does not panic.
C20_EmptyInputIsAnError ==
    (checked # NoCheck /\ NoTriple(checked.data)) =>
        /\ checked.out.err \notin {"none", "panic"}
        /\ checked.out.id = ""

ResourceEventTypes ==
    {"resource.created", "resource.uri_assigned", "resource.updated", "resource.deleted"}

\* replica i has been given LoadFromHistory(history)
Loaded(i) == before[i] # NoResource

\* replica i was as NewBasicResource() made it when the replay began
Fresh(i) == Loaded(i) /\ before[i] = NewBasicResource(before[i].lastModified)

\* the stream holds resource events only
ResourceEventsOnly ==
    \A k \in 1..Len(history) : history[k].type \in ResourceEventTypes

Observable(r0) ==
    [uri |-> r0.uri, data |-> r0.data, contentType |-> r0.contentType,
     lastModified |-> r0.lastModified, etag |-> GetETag(r0, now).etag,
     version |-> r0.Entity.version, sequenceNo |-> r0.Entity.sequenceNo]

\* C16: LoadFromHistory(E) on two fresh Resources gives both the same uri,
\* data, content type, last-modified time, ETag, version and sequence number,
\* for every sequence E of resource events.
C16_ReplayDeterminism ==
    (Fresh(1) /\ Fresh(2) /\ ResourceEventsOnly) =>
        Observable(replica[1]) = Observable(replica[2])

\* the last event of the stream whose type is one of types, 0 when none is
LastIndex(events, types) ==
    LET found == { k \in 1..Len(events) : events[k].type \in types }
    IN  IF found = {} THEN 0 ELSE CHOOSE k \in found : \A j \in found : j <= k

CacheFresh(r0) == r0.etag = NoETag \/ r0.etag = ETagOf(r0.data, r0.lastModified)

\* C26: the cached etag is never stale: it is cleared or equals the hash of
\* the current (data, last_modified); every event applied by a live call
\* clears it, a replay leaves no stale one either, and GetETag() returns the
\* hash of the current data and last_modified.
C26_ETagNeverStale ==
    [][ /\ CacheFresh(r) /\ CacheFresh(r')
        /\ \A i \in Replicas : replica'[i] # NoResource => CacheFresh(replica'[i])
        /\ applied' = applied + 1 => r'.etag = NoETag
        /\ Called({"GetETag"}) =>
              /\ result'.etag = ETagOf(r.data, r.lastModified)
              /\ r'.data = r.data /\ r'.lastModified = r.lastModified ]_vars

\* an etag was read, then a URI assigned at a later second: the cache is
\* cleared and the value read before is no longer the current hash
C26_Witness ==
    /\ Len(trace) >= 2
    /\ trace[Len(trace) - 1] = "GetETag"
    /\ trace[Len(trace)] = "WithURI"
    /\ ~HasErrors(r)
    /\ r.etag = NoETag
    /\ result.etag # NoETag
    /\ result.etag # ETagOf(r.data, r.lastModified)

IsPrefix(s, t) == Len(s) <= Len(t) /\ SubSeq(t, 1, Len(s)) = s

\* C27: no call other than MarkEventsAsCommitted shortens or rewrites the
\* uncommitted list; a creation on a Resource without id that already holds
\* uncommitted events appends its event after them.
C27_NoEventLost ==
    [][ Called(Mutators \cup {"GetETag"}) =>
            IsPrefix(UncommittedEvents(r), UncommittedEvents(r')) ]_vars

\* C28: when the live calls made so far left no error, none of them was
\* MarkEventsAsCommitted and at least one event is uncommitted, a fresh
\* Resource given LoadFromHistory(UncommittedEvents()) has the uri, data,
\* content type, last-modified time and ETag of the live Resource.
C28_LiveEqualsReplayed ==
    ( /\ ~HasErrors(r)
      /\ \A k \in 1..Len(trace) : trace[k] # "MarkEventsAsCommitted"
      /\ UncommittedEvents(r) # <<>> ) =>
        LET b == LoadFromHistory(NewBasicResource(now), UncommittedEvents(r))
        IN  /\ b.uri = r.uri
            /\ b.data = r.data
            /\ b.contentType = r.contentType
            /\ b.lastModified = r.lastModified
            /\ GetETag(b, now).etag = GetETag(r, now).etag

\* C29: once a creation has succeeded (a ResourceCreatedEvent is in the list
\* and there is no error) id() is non-empty, and so are the event's
\* AggregateID and ExtractedID.
C29_CreatedHasIdentifier ==
    ~HasErrors(r) =>
        \A k \in 1..Len(UncommittedEvents(r)) :
            UncommittedEvents(r)[k].type = "resource.created" =>
                /\ ID(r) # ""
                /\ UncommittedEvents(r)[k].resourceID # ""
                /\ UncommittedEvents(r)[k].extractedID # ""

\* ConvertFormat has been called
Converting == converted # NoConversion

Supported(f) == f \in Range(SupportedFormats)

\* C21: ConvertFormat with a fromFormat that is none of the five recognised
\* strings returns the empty string and an error naming that fromFormat,
\* whatever the data and the toFormat are.
C21_UnsupportedSource ==
    (Converting /\ ~Supported(converted.fromFormat)) =>
        /\ converted.out.result = EmptyString
        /\ converted.out.err = <<"unsupported source format", converted.fromFormat>>

\* text that is not empty met an unknown source and an unknown target format
C21_Witness ==
    /\ Converting
    /\ converted.data = Garbage
    /\ converted.fromFormat = "unsupported/x"
    /\ converted.toFormat = FormatRDFJSON
    /\ converted.out.err = <<"unsupported source format", "unsupported/x">>

\* C22: ConvertFormat with a supported fromFormat and a toFormat that is none
\* of the five recognised strings returns the empty string and an
\* unsupported-format error naming that toFormat, for every data, valid in
\* fromFormat or not.
C22_UnsupportedTarget ==
    (Converting /\ Supported(converted.fromFormat) /\ ~Supported(converted.toFormat)) =>
        /\ converted.out.result = EmptyString
        /\ converted.out.err = <<"unsupported target format", converted.toFormat>>

ValidJSONLD(data) == data.lang = "jsonld" /\ data.wf /\ data.idkind = "string"

\* C24: converted from JSON-LD, two valid objects with the same top-level
\* "@id" give the same output for every supported target: the serialization
\* of the one triple (@id, rdf:type, rdfs:Resource) with a non-literal object.
C24_JSONLDCarriesOnlyID ==
    ( /\ Converting
      /\ converted.fromFormat = FormatJSONLD
      /\ ValidJSONLD(converted.data)
      /\ Supported(converted.toFormat) ) =>
        LET placeholder ==
                rdfTriple(converted.data.idval,
                          "http://www.w3.org/1999/02/22-rdf-syntax-ns#type",
                          "http://www.w3.org/2000/01/rdf-schema#Resource", FALSE)
        IN  /\ converted.out = serialize(<<placeholder>>, converted.toFormat)
            /\ converted.out.err = <<"none">>
            /\ \A other \in ConversionTexts :
                  (ValidJSONLD(other) /\ other.idval = converted.data.idval) =>
                      ConvertFormat(other, FormatJSONLD, converted.toFormat)
                          = {converted.out}

\* the second of two objects with "@id": "a" was converted to RDF/XML
C24_Witness ==
    /\ Converting
    /\ converted.data = JSONLDText("string", "a", 2)
    /\ converted.fromFormat = FormatJSONLD
    /\ converted.toFormat = FormatRDFXML
    /\ converted.out.err = <<"none">>
    /\ converted.out.result.descriptions[1].about = "a"

\* C25: a valid Turtle text whose first triple has subject S, converted to
\* JSON-LD, gives an object whose top-level "@id" is S, and S is what
\* ValidateTurtle returns for the text, also when the text has several
\* triples with different subjects.
C25_IdentifierRoundTrip ==
    ( /\ Converting
      /\ converted.fromFormat = FormatTurtle
      /\ converted.toFormat = FormatJSONLD
      /\ converted.data.lang = "turtle" /\ converted.data.wf
      /\ converted.data.triples # <<>> ) =>
        LET S == converted.data.triples[1].Subject
        IN  /\ converted.out.err = <<"none">>
            /\ converted.out.result.members["@id"] = S
            /\ ValidateTurtle(converted.data) = {Outcome(S, "none")}

ValidatorOf(format, data) ==
    CASE format = FormatJSONLD -> ValidateJSONLD(data)
      [] format = FormatTurtle -> ValidateTurtle(data)
      [] format = FormatRDFXML -> ValidateRDFXML(data)
      [] format = FormatN3 -> ValidateN3(data)
      [] format = FormatNTriples -> ValidateNTriples(data)

\* C30: for supported source and target formats, a text for which the source
\* format's validator returns an error is a text for which ConvertFormat
\* returns an error.
C30_ConverterAgreesWithValidator ==
    ( /\ Converting
      /\ Supported(converted.fromFormat)
      /\ Supported(converted.toFormat)
      /\ \A v \in ValidatorOf(converted.fromFormat, converted.data) :
            v.err \notin {"none", "panic"} ) =>
        converted.out.err # <<"none">>

====
